---- MODULE Spec2Model ----
(***************************************************************************)
(* Model of scripts/make_pdf.py: the line-oriented Markdown-to-HTML        *)
(* renderer (markdown_to_html) and the conversion orchestrator             *)
(* (main / convert_to_pdf).                                                *)
(*                                                                         *)
(* Text is a sequence of one-character strings.  An emitted HTML line is a *)
(* sequence of pieces whose concatenation is the line: literal markup      *)
(* pieces of the f-strings, and, for the embedded text, one piece per      *)
(* input character (the character itself or the entity html.escape puts    *)
(* in its place).                                                          *)
(***************************************************************************)
EXTENDS Integers, Sequences, FiniteSets, TLC

\* ---------------------------------------------------------------- bounds
MaxLines  == 3      \* lines per multi-line input document
MaxHashes == 6      \* longest '#' run of a generated heading line

\* ------------------------------------------------------- str primitives
Whitespace == {" ", "\t"}
Digits == {"0", "1", "2", "3", "4", "5", "6", "7", "8", "9"}

Max(a, b) == IF a >= b THEN a ELSE b
Min(a, b) == IF a <= b THEN a ELSE b

Drop(s, n) == SubSeq(s, n + 1, Len(s))

\* number of leading characters of s that are in set cs
RECURSIVE LeadRun(_, _)
LeadRun(s, cs) ==
    IF s # <<>> /\ Head(s) \in cs THEN 1 + LeadRun(Tail(s), cs) ELSE 0

\* number of trailing characters of s that are in set cs
RECURSIVE TrailRun(_, _)
TrailRun(s, cs) ==
    IF s # <<>> /\ s[Len(s)] \in cs
    THEN 1 + TrailRun(SubSeq(s, 1, Len(s) - 1), cs) ELSE 0

lstrip(s, cs) == Drop(s, LeadRun(s, cs))
rstrip(s) == SubSeq(s, 1, Len(s) - TrailRun(s, Whitespace))
strip(s) == lstrip(rstrip(s), Whitespace)

startswith(s, p) == Len(s) >= Len(p) /\ SubSeq(s, 1, Len(p)) = p

\* str.splitlines(): every "\n" ends a line; what follows the last "\n" is
\* a line only when it is not empty.
RECURSIVE SplitFrom(_, _, _)
SplitFrom(s, cur, acc) ==
    IF s = <<>> THEN (IF cur = <<>> THEN acc ELSE Append(acc, cur))
    ELSE IF Head(s) = "\n" THEN SplitFrom(Tail(s), <<>>, Append(acc, cur))
    ELSE SplitFrom(Tail(s), Append(cur, Head(s)), acc)

splitlines(s) == SplitFrom(s, <<>>, <<>>)

EscapeChar_noquote(c) ==
    CASE c = "&"  -> "&amp;"
      [] c = "<"  -> "&lt;"
      [] c = ">"  -> "&gt;"
      [] OTHER    -> c

\* html.escape(s, quote=True), one piece per input character
EscapeChar(c) ==
    CASE c = "&"  -> "&amp;"
      [] c = "<"  -> "&lt;"
      [] c = ">"  -> "&gt;"
      [] c = "\"" -> "&quot;"
      [] c = "'"  -> "&#x27;"
      [] OTHER    -> c

escape(s) == [k \in 1..Len(s) |-> EscapeChar(s[k])]

\* "\n".join(ls)
RECURSIVE join(_)
join(ls) ==
    IF ls = <<>> THEN <<>>
    ELSE IF Len(ls) = 1 THEN ls[1]
    ELSE ls[1] \o <<"\n">> \o join(Tail(ls))

\* --------------------------------------------------------- the renderer
HEADING_STYLES ==
    (1 :> "font-size: 22px; margin-top: 28px; margin-bottom: 12px;") @@
    (2 :> "font-size: 18px; margin-top: 24px; margin-bottom: 10px;") @@
    (3 :> "font-size: 16px; margin-top: 20px; margin-bottom: 8px;")

LevelStr == (1 :> "1") @@ (2 :> "2") @@ (3 :> "3") @@ (4 :> "4") @@
            (5 :> "5") @@ (6 :> "6") @@ (7 :> "7") @@ (8 :> "8")

Shell ==
    << <<"<!DOCTYPE html>">>,
       <<"<html>">>,
       <<"<head>">>,
       <<"<meta charset=\"utf-8\">">>,
       <<"<style>">>,
       <<"body { font-family: -apple-system, BlinkMacSystemFont, 'Helvetica Neue', Helvetica, Arial, sans-serif; font-size: 12pt; margin: 48px 60px; line-height: 1.5; color: #131313; }">>,
       <<"h1, h2, h3 { font-weight: 600; }">>,
       <<"p { margin: 10px 0; }">>,
       <<"ul, ol { margin: 8px 0 8px 24px; }">>,
       <<"li { margin: 4px 0; }">>,
       <<"strong { font-weight: 600; }">>,
       <<"</style>">>,
       <<"</head>">>,
       <<"<body>">> >>

ShellEnd == << <<"</body>">>, <<"</html>">> >>

\* the renderer's local state: in_ul, in_ol, html_lines, and the exception
\* (if any) that left the function
RenderStart ==
    [in_ul |-> FALSE, in_ol |-> FALSE, html_lines |-> Shell, err |-> "none"]

emit(st, frag) == [st EXCEPT !.html_lines = Append(@, frag)]

close_lists_noreset(st) ==
    LET s1 == IF st.in_ul THEN emit(st, <<"</ul>">>) ELSE st
    IN  IF s1.in_ol THEN emit(s1, <<"</ol>">>) ELSE s1

close_lists(st) ==
    LET s1 == IF st.in_ul
              THEN [emit(st, <<"</ul>">>) EXCEPT !.in_ul = FALSE] ELSE st
    IN  IF s1.in_ol
        THEN [emit(s1, <<"</ol>">>) EXCEPT !.in_ol = FALSE] ELSE s1

BlankLine_twice(st) ==
    emit(emit(close_lists(st), <<"<p>&nbsp;</p>">>), <<"<p>&nbsp;</p>">>)

BlankLine_placeholderfirst(st) == close_lists(emit(st, <<"<p>&nbsp;</p>">>))

BlankLine_noclose(st) == emit(st, <<"<p>&nbsp;</p>">>)

BlankLine(st) == emit(close_lists(st), <<"<p>&nbsp;</p>">>)

HashCount(stripped) == Len(stripped) - Len(lstrip(stripped, {"#"}))

ClampLevel_max2(n) == Max(1, Min(n, 2))

ClampLevel_none(n) == Max(1, n)

ClampLevel(n) == Max(1, Min(n, 3))

HeadingFrag(level, text) ==
    <<"<h", LevelStr[level], " style=\"", HEADING_STYLES[level], "\" >">>
        \o escape(text) \o <<"</h", LevelStr[level], ">">>

HeadingLine(st, stripped) ==
    LET s1    == close_lists(st)
        level == ClampLevel(HashCount(stripped))
        text  == strip(Drop(stripped, level))
    IN  IF level \in DOMAIN HEADING_STYLES
        THEN emit(s1, HeadingFrag(level, text))
        ELSE [s1 EXCEPT !.err = "KeyError"]

\* numbered_pattern = ^(\d+)\.\s+(.*) matched at the start of stripped
NumberedDigits(s) == LeadRun(s, Digits)
NumberedSpaces(s) == LeadRun(Drop(s, NumberedDigits(s) + 1), Whitespace)
numbered_match(s) ==
    /\ NumberedDigits(s) >= 1
    /\ Len(s) > NumberedDigits(s)
    /\ s[NumberedDigits(s) + 1] = "."
    /\ NumberedSpaces(s) >= 1
numbered_group2(s) == Drop(s, NumberedDigits(s) + 1 + NumberedSpaces(s))

ItemFrag(text) == <<"<li>">> \o escape(text) \o <<"</li>">>

OrderedItem_keepnumber(st, stripped) ==
    LET s1 == IF ~st.in_ol
              THEN [emit(close_lists(st), <<"<ol>">>) EXCEPT !.in_ol = TRUE]
              ELSE st
    IN  emit(s1, ItemFrag(stripped))

OrderedItem_noclose(st, stripped) ==
    LET s1 == IF ~st.in_ol
              THEN [emit(st, <<"<ol>">>) EXCEPT !.in_ol = TRUE]
              ELSE st
    IN  emit(s1, ItemFrag(numbered_group2(stripped)))

OrderedItem(st, stripped) ==
    LET s1 == IF ~st.in_ol
              THEN [emit(close_lists(st), <<"<ol>">>) EXCEPT !.in_ol = TRUE]
              ELSE st
    IN  emit(s1, ItemFrag(numbered_group2(stripped)))

UnorderedItem_alwaysopen(st, stripped) ==
    LET s1 == [emit(close_lists(st), <<"<ul>">>) EXCEPT !.in_ul = TRUE]
    IN  emit(s1, ItemFrag(strip(Drop(stripped, 2))))

UnorderedItem_noclose(st, stripped) ==
    LET s1 == IF ~st.in_ul
              THEN [emit(st, <<"<ul>">>) EXCEPT !.in_ul = TRUE]
              ELSE st
    IN  emit(s1, ItemFrag(strip(Drop(stripped, 2))))

UnorderedItem(st, stripped) ==
    LET s1 == IF ~st.in_ul
              THEN [emit(close_lists(st), <<"<ul>">>) EXCEPT !.in_ul = TRUE]
              ELSE st
    IN  emit(s1, ItemFrag(strip(Drop(stripped, 2))))

Paragraph_noclose(st, stripped) ==
    emit(st, <<"<p>">> \o escape(stripped) \o <<"</p>">>)

Paragraph(st, stripped) ==
    emit(close_lists(st), <<"<p>">> \o escape(stripped) \o <<"</p>">>)

\* the classification of one line, in the order of the loop's tests
LineClass(raw_line) ==
    LET stripped == strip(rstrip(raw_line))
    IN  IF stripped = <<>> THEN "blank"
        ELSE IF startswith(stripped, <<"#">>) THEN "heading"
        ELSE IF numbered_match(stripped) THEN "ordered"
        ELSE IF startswith(stripped, <<"-", " ">>) THEN "unordered"
        ELSE "paragraph"

\* one iteration of the loop over markdown.splitlines()
ProcessLine(st, raw_line) ==
    LET line     == rstrip(raw_line)
        stripped == strip(line)
        class    == LineClass(raw_line)
    IN  CASE class = "blank"     -> BlankLine(st)
          [] class = "heading"   -> HeadingLine(st, stripped)
          [] class = "ordered"   -> OrderedItem(st, stripped)
          [] class = "unordered" -> UnorderedItem(st, stripped)
          [] OTHER               -> Paragraph(st, stripped)

\* what follows the loop: close_lists(), the closing shell
FinishLines(st) ==
    [close_lists(st) EXCEPT !.html_lines = @ \o ShellEnd]

RECURSIVE ProcessAll(_, _)
ProcessAll(st, ls) ==
    IF ls = <<>> \/ st.err # "none" THEN st
    ELSE ProcessAll(ProcessLine(st, Head(ls)), Tail(ls))

markdown_to_html(md) ==
    LET st == ProcessAll(RenderStart, splitlines(md))
    IN  IF st.err # "none" THEN <<st.err>>
        ELSE join(FinishLines(st).html_lines)

\* ------------------------------------------------- rendering, step by step
VARIABLES markdown, in_ul, in_ol, html_lines, render_err, i, rpc, html_out

rvars == <<markdown, in_ul, in_ol, html_lines, render_err, i, rpc, html_out>>

\* the state of the running scripts (main, convert_to_pdf) and of the file
\* system they share, fs: path -> [text, creator]
VARIABLES pc, argc, src, fs, html_content, tmp_path, exc, returncode,
          exit_status, stdout, stderr, exists_checked, read_attempts,
          ext_calls, ext_input, remove_result

cvars == <<pc, argc, src, fs, html_content, tmp_path, exc, returncode,
           exit_status, stdout, stderr, exists_checked, read_attempts,
           ext_calls, ext_input, remove_result>>

vars == <<rvars, cvars>>

\* the local state of the running markdown_to_html call
Cur == [in_ul |-> in_ul, in_ol |-> in_ol, html_lines |-> html_lines,
        err |-> render_err]

SetCur(st) ==
    /\ in_ul' = st.in_ul
    /\ in_ol' = st.in_ol
    /\ html_lines' = st.html_lines
    /\ render_err' = st.err

Procs == {"p1", "p2"}

SrcPaths == {"in.md", "missing.md"}

TmpNames == {"tmpA.html", "tmpB.html"}

\* sys.argv[2] of each process
dst == ("p1" :> "out1.pdf") @@ ("p2" :> "out2.pdf")

\* the text of the one existing source file, in.md
SourceText ==
    <<"#", " ", "T", "\n", "-", " ", "a", "\n", "1", ".", " ", "<">>

File(text, creator) == [text |-> text, creator |-> creator]

Without(f, name) == [n \in (DOMAIN f) \ {name} |-> f[n]]

With(f, name, file) ==
    [n \in (DOMAIN f) \cup {name} |-> IF n = name THEN file ELSE f[n]]

\* generated input lines
Hashes(n) == [k \in 1..n |-> "#"]

Title == <<"T", "i", "t", "l", "e">>

Bodies == { <<>>, Title, <<"<", "b", ">">>, <<"&", "'", "<", "\"", ">">>,
            <<"a", " ", "#">> }

Prefixes == { Hashes(n) : n \in 0..MaxHashes }
            \cup { <<"-">>, <<"1", ".">>, <<"2", "0", ".">>, <<"7">>,
                   <<".">>, <<"1", ".", " ", "-">> }

Leads  == { <<>>, <<" ">> }
Gaps   == { <<>>, <<" ">>, <<" ", "\t">> }
Trails == { <<>>, <<" ">> }

\* one-line documents: every combination of indentation, marker, gap, body
\* and trailing space
SingleLines ==
    { ld \o pf \o gp \o bd \o tr :
        ld \in Leads, pf \in Prefixes, gp \in Gaps, bd \in Bodies,
        tr \in Trails }

\* the lines multi-line documents are made of
CoreLines ==
    { <<>>, <<" ">>,
      <<"-", " ", "a">>, <<"-", " ", "b">>, <<" ", "-", " ", "b">>,
      <<"-", " ">>,
      <<"1", ".", " ", "c">>, <<"2", "0", ".", " ", " ", "&">>,
      <<"#", " ", "T">>, <<"#", "#", "#", "#", "x">>,
      <<"a", "<">> }

RECURSIVE SeqsUpTo(_, _)
SeqsUpTo(S, n) ==
    IF n = 0 THEN { <<>> }
    ELSE LET shorter == SeqsUpTo(S, n - 1)
         IN  shorter \cup { Append(s, x) : s \in shorter, x \in S }

Inputs ==
    { join(ls) : ls \in SeqsUpTo(CoreLines, MaxLines) }
    \cup { join(ls) \o <<"\n">> : ls \in SeqsUpTo(CoreLines, MaxLines) }
    \cup SingleLines

InitRender ==
    /\ markdown \in Inputs
    /\ in_ul = RenderStart.in_ul
    /\ in_ol = RenderStart.in_ol
    /\ html_lines = RenderStart.html_lines
    /\ render_err = RenderStart.err
    /\ i = 0
    /\ rpc = "loop"
    /\ html_out = <<>>
    \* no script is running
    /\ pc = [p \in Procs |-> "idle"]
    /\ argc = [p \in Procs |-> 0]
    /\ src = [p \in Procs |-> "in.md"]
    /\ fs = [n \in {"in.md"} |-> File(SourceText, "env")]
    /\ html_content = [p \in Procs |-> <<>>]
    /\ tmp_path = [p \in Procs |-> "none"]
    /\ exc = [p \in Procs |-> "none"]
    /\ returncode = [p \in Procs |-> "none"]
    /\ exit_status = [p \in Procs |-> -1]
    /\ stdout = [p \in Procs |-> <<>>]
    /\ stderr = [p \in Procs |-> <<>>]
    /\ exists_checked = [p \in Procs |-> FALSE]
    /\ read_attempts = [p \in Procs |-> 0]
    /\ ext_calls = [p \in Procs |-> 0]
    /\ ext_input = [p \in Procs |-> [found |-> FALSE, text |-> <<>>]]
    /\ remove_result = [p \in Procs |-> "none"]

\* one iteration of `for raw_line in markdown.splitlines()`
RenderLine ==
    /\ rpc = "loop"
    /\ i < Len(splitlines(markdown))
    /\ LET st == ProcessLine(Cur, splitlines(markdown)[i + 1])
       IN  /\ SetCur(st)
           /\ rpc' = IF st.err = "none" THEN "loop" ELSE "raised"
    /\ i' = i + 1
    /\ UNCHANGED <<markdown, html_out, cvars>>

\* after the loop: close_lists(), the closing shell, the join
RenderFinish ==
    /\ rpc = "loop"
    /\ i = Len(splitlines(markdown))
    /\ SetCur(FinishLines(Cur))
    /\ html_out' = join(FinishLines(Cur).html_lines)
    /\ rpc' = "done"
    /\ UNCHANGED <<markdown, i, cvars>>

NextRender == RenderLine \/ RenderFinish

\* ------------------------------------------- main and convert_to_pdf
\* Each process is one run of the script: main, then convert_to_pdf.

InitConvert ==
    /\ pc = [p \in Procs |-> "main"]
    /\ argc \in [Procs -> {2, 3, 4}]
    /\ src \in [Procs -> SrcPaths]
    /\ fs = [n \in {"in.md"} |-> File(SourceText, "env")]
    /\ html_content = [p \in Procs |-> <<>>]
    /\ tmp_path = [p \in Procs |-> "none"]
    /\ exc = [p \in Procs |-> "none"]
    /\ returncode = [p \in Procs |-> "none"]
    /\ exit_status = [p \in Procs |-> -1]
    /\ stdout = [p \in Procs |-> <<>>]
    /\ stderr = [p \in Procs |-> <<>>]
    /\ exists_checked = [p \in Procs |-> FALSE]
    /\ read_attempts = [p \in Procs |-> 0]
    /\ ext_calls = [p \in Procs |-> 0]
    /\ ext_input = [p \in Procs |-> [found |-> FALSE, text |-> <<>>]]
    /\ remove_result = [p \in Procs |-> "none"]
    \* the renderer is used through markdown_to_html; no stepwise rendering
    /\ markdown = <<>>
    /\ in_ul = FALSE
    /\ in_ol = FALSE
    /\ html_lines = <<>>
    /\ render_err = "none"
    /\ i = 0
    /\ rpc = "idle"
    /\ html_out = <<>>

MainArgs_atleast(p) ==
    /\ pc[p] = "main"
    /\ IF argc[p] < 3
       THEN /\ stderr' = [stderr EXCEPT ![p] = Append(@, "Usage")]
            /\ exit_status' = [exit_status EXCEPT ![p] = 1]
            /\ pc' = [pc EXCEPT ![p] = "exit"]
       ELSE /\ pc' = [pc EXCEPT ![p] = "exists"]
            /\ UNCHANGED <<stderr, exit_status>>
    /\ UNCHANGED rvars
    /\ UNCHANGED <<argc, src, fs, html_content, tmp_path, exc, returncode,
                   stdout, exists_checked, read_attempts, ext_calls,
                   ext_input, remove_result>>

\* main: the argument count test
MainArgs(p) ==
    /\ pc[p] = "main"
    /\ IF argc[p] # 3
       THEN /\ stderr' = [stderr EXCEPT ![p] = Append(@, "Usage")]
            /\ exit_status' = [exit_status EXCEPT ![p] = 1]
            /\ pc' = [pc EXCEPT ![p] = "exit"]
       ELSE /\ pc' = [pc EXCEPT ![p] = "exists"]
            /\ UNCHANGED <<stderr, exit_status>>
    /\ UNCHANGED rvars
    /\ UNCHANGED <<argc, src, fs, html_content, tmp_path, exc, returncode,
                   stdout, exists_checked, read_attempts, ext_calls,
                   ext_input, remove_result>>

SourceFound_always(p) == TRUE

\* src.exists()
SourceFound(p) == src[p] \in DOMAIN fs

\* main: the test of the input path, then the call of convert_to_pdf
MainExists(p) ==
    /\ pc[p] = "exists"
    /\ exists_checked' = [exists_checked EXCEPT ![p] = TRUE]
    /\ IF ~SourceFound(p)
       THEN /\ stderr' = [stderr EXCEPT ![p] = Append(@, "Input file not found")]
            /\ exit_status' = [exit_status EXCEPT ![p] = 1]
            /\ pc' = [pc EXCEPT ![p] = "exit"]
       ELSE /\ pc' = [pc EXCEPT ![p] = "read"]
            /\ UNCHANGED <<stderr, exit_status>>
    /\ UNCHANGED rvars
    /\ UNCHANGED <<argc, src, fs, html_content, tmp_path, exc, returncode,
                   stdout, read_attempts, ext_calls, ext_input,
                   remove_result>>

\* convert_to_pdf: markdown_to_html(markdown_path.read_text(...)); the read
\* raises when the file is missing or cannot be read or decoded
ReadSource(p) ==
    /\ pc[p] = "read"
    /\ read_attempts' = [read_attempts EXCEPT ![p] = @ + 1]
    /\ IF src[p] \notin DOMAIN fs
       THEN /\ exc' = [exc EXCEPT ![p] = "FileNotFoundError"]
            /\ pc' = [pc EXCEPT ![p] = "raise"]
            /\ UNCHANGED html_content
       ELSE \E ok \in BOOLEAN :
              IF ok
              THEN /\ html_content' =
                        [html_content EXCEPT ![p] = markdown_to_html(fs[src[p]].text)]
                   /\ pc' = [pc EXCEPT ![p] = "tmp_open"]
                   /\ UNCHANGED exc
              ELSE /\ exc' = [exc EXCEPT ![p] = "ReadError"]
                   /\ pc' = [pc EXCEPT ![p] = "raise"]
                   /\ UNCHANGED html_content
    /\ UNCHANGED rvars
    /\ UNCHANGED <<argc, src, fs, tmp_path, returncode, exit_status, stdout,
                   stderr, exists_checked, ext_calls, ext_input,
                   remove_result>>

TmpOpen_fixedname(p) ==
    /\ pc[p] = "tmp_open"
    /\ \/ /\ fs' = With(fs, "tmpA.html", File(<<>>, p))
          /\ tmp_path' = [tmp_path EXCEPT ![p] = "tmpA.html"]
          /\ pc' = [pc EXCEPT ![p] = "tmp_write"]
          /\ UNCHANGED exc
       \/ /\ exc' = [exc EXCEPT ![p] = "OSError"]
          /\ pc' = [pc EXCEPT ![p] = "raise"]
          /\ UNCHANGED <<fs, tmp_path>>
    /\ UNCHANGED rvars
    /\ UNCHANGED <<argc, src, html_content, returncode, exit_status, stdout,
                   stderr, exists_checked, read_attempts, ext_calls,
                   ext_input, remove_result>>

\* tempfile.NamedTemporaryFile("w", suffix=".html", delete=False): creates
\* an empty file under a name no existing file has, or raises
TmpOpen(p) ==
    /\ pc[p] = "tmp_open"
    /\ \/ \E name \in TmpNames \ DOMAIN fs :
            /\ fs' = With(fs, name, File(<<>>, p))
            /\ tmp_path' = [tmp_path EXCEPT ![p] = name]
            /\ pc' = [pc EXCEPT ![p] = "tmp_write"]
            /\ UNCHANGED exc
       \/ /\ exc' = [exc EXCEPT ![p] = "OSError"]
          /\ pc' = [pc EXCEPT ![p] = "raise"]
          /\ UNCHANGED <<fs, tmp_path>>
    /\ UNCHANGED rvars
    /\ UNCHANGED <<argc, src, html_content, returncode, exit_status, stdout,
                   stderr, exists_checked, read_attempts, ext_calls,
                   ext_input, remove_result>>

TmpWrite_unflushed(p) ==
    /\ pc[p] = "tmp_write"
    /\ \/ /\ pc' = [pc EXCEPT ![p] = "run"]
          /\ UNCHANGED <<exc, fs>>
       \/ /\ exc' = [exc EXCEPT ![p] = "OSError"]
          /\ pc' = [pc EXCEPT ![p] = "raise"]
          /\ UNCHANGED fs
    /\ UNCHANGED rvars
    /\ UNCHANGED <<argc, src, html_content, tmp_path, returncode,
                   exit_status, stdout, stderr, exists_checked,
                   read_attempts, ext_calls, ext_input, remove_result>>

\* tmp.write(html_content) and the end of the with block (flush, close);
\* a failure leaves the with block by the exception, before the try
TmpWrite(p) ==
    /\ pc[p] = "tmp_write"
    /\ \/ /\ fs' = With(fs, tmp_path[p], File(html_content[p], p))
          /\ pc' = [pc EXCEPT ![p] = "run"]
          /\ UNCHANGED exc
       \/ /\ exc' = [exc EXCEPT ![p] = "OSError"]
          /\ pc' = [pc EXCEPT ![p] = "raise"]
          /\ UNCHANGED fs
    /\ UNCHANGED rvars
    /\ UNCHANGED <<argc, src, html_content, tmp_path, returncode,
                   exit_status, stdout, stderr, exists_checked,
                   read_attempts, ext_calls, ext_input, remove_result>>

\* subprocess.run([... "textutil" ...]): the launch.  The tool starts and
\* opens the file at tmp_path, or cannot be started
RunStart(p) ==
    /\ pc[p] = "run"
    /\ ext_calls' = [ext_calls EXCEPT ![p] = @ + 1]
    /\ \/ /\ ext_input' = [ext_input EXCEPT ![p] =
                IF tmp_path[p] \in DOMAIN fs
                THEN [found |-> TRUE, text |-> fs[tmp_path[p]].text]
                ELSE [found |-> FALSE, text |-> <<>>]]
          /\ pc' = [pc EXCEPT ![p] = "running"]
          /\ UNCHANGED <<exc, returncode>>
       \/ /\ returncode' = [returncode EXCEPT ![p] = "not started"]
          /\ exc' = [exc EXCEPT ![p] = "ToolNotFound"]
          /\ pc' = [pc EXCEPT ![p] = "remove"]
          /\ UNCHANGED ext_input
    /\ UNCHANGED rvars
    /\ UNCHANGED <<argc, src, fs, html_content, tmp_path, exit_status,
                   stdout, stderr, exists_checked, read_attempts,
                   remove_result>>

CheckReturn_unchecked(rc) == "none"

\* check=True: a non-zero exit status of the tool raises
CheckReturn(rc) == IF rc # "0" THEN "CalledProcessError" ELSE "none"

\* subprocess.run: the tool exits; on success it has written the PDF
RunEnd(p) ==
    /\ pc[p] = "running"
    /\ \E rc \in {"0", "1"} :
         /\ rc = "0" => ext_input[p].found
         /\ returncode' = [returncode EXCEPT ![p] = rc]
         /\ fs' = IF rc = "0"
                  THEN With(fs, dst[p], File(<<"PDF">> \o ext_input[p].text, p))
                  ELSE fs
         /\ exc' = [exc EXCEPT ![p] = CheckReturn(rc)]
    /\ pc' = [pc EXCEPT ![p] = "remove"]
    /\ UNCHANGED rvars
    /\ UNCHANGED <<argc, src, html_content, tmp_path, exit_status, stdout,
                   stderr, exists_checked, read_attempts, ext_calls,
                   ext_input, remove_result>>

RemoveTmp_escalate(p) ==
    /\ pc[p] = "remove"
    /\ \/ /\ tmp_path[p] \in DOMAIN fs
          /\ fs' = Without(fs, tmp_path[p])
          /\ remove_result' = [remove_result EXCEPT ![p] = "removed"]
          /\ UNCHANGED exc
          /\ pc' = [pc EXCEPT ![p] = IF exc[p] = "none" THEN "report" ELSE "raise"]
       \/ /\ remove_result' = [remove_result EXCEPT ![p] = "OSError"]
          /\ exc' = [exc EXCEPT ![p] = "OSError"]
          /\ pc' = [pc EXCEPT ![p] = "raise"]
          /\ UNCHANGED fs
    /\ UNCHANGED rvars
    /\ UNCHANGED <<argc, src, html_content, tmp_path, returncode,
                   exit_status, stdout, stderr, exists_checked,
                   read_attempts, ext_calls, ext_input>>

\* finally: os.remove(tmp_path), OSError swallowed; then the pending
\* exception, if any, goes on
RemoveTmp(p) ==
    /\ pc[p] = "remove"
    /\ \/ /\ tmp_path[p] \in DOMAIN fs
          /\ fs' = Without(fs, tmp_path[p])
          /\ remove_result' = [remove_result EXCEPT ![p] = "removed"]
       \/ /\ remove_result' = [remove_result EXCEPT ![p] = "OSError"]
          /\ UNCHANGED fs
    /\ pc' = [pc EXCEPT ![p] = IF exc[p] = "none" THEN "report" ELSE "raise"]
    /\ UNCHANGED rvars
    /\ UNCHANGED <<argc, src, html_content, tmp_path, exc, returncode,
                   exit_status, stdout, stderr, exists_checked,
                   read_attempts, ext_calls, ext_input>>

\* main: print(f"Wrote {dst}"); return 0
Report(p) ==
    /\ pc[p] = "report"
    /\ stdout' = [stdout EXCEPT ![p] = Append(@, "Wrote")]
    /\ exit_status' = [exit_status EXCEPT ![p] = 0]
    /\ pc' = [pc EXCEPT ![p] = "exit"]
    /\ UNCHANGED rvars
    /\ UNCHANGED <<argc, src, fs, html_content, tmp_path, exc, returncode,
                   stderr, exists_checked, read_attempts, ext_calls,
                   ext_input, remove_result>>

\* an exception leaves convert_to_pdf and main uncaught: traceback, exit 1
Raise(p) ==
    /\ pc[p] = "raise"
    /\ stderr' = [stderr EXCEPT ![p] = Append(@, "Traceback")]
    /\ exit_status' = [exit_status EXCEPT ![p] = 1]
    /\ pc' = [pc EXCEPT ![p] = "exit"]
    /\ UNCHANGED rvars
    /\ UNCHANGED <<argc, src, fs, html_content, tmp_path, exc, returncode,
                   stdout, exists_checked, read_attempts, ext_calls,
                   ext_input, remove_result>>

NextConvert ==
    \E p \in Procs :
        \/ MainArgs(p)
        \/ MainExists(p)
        \/ ReadSource(p)
        \/ TmpOpen(p)
        \/ TmpWrite(p)
        \/ RunStart(p)
        \/ RunEnd(p)
        \/ RemoveTmp(p)
        \/ Report(p)
        \/ Raise(p)

\* --------------------------------------------------- the specifications


\* the renderer alone, one line at a time, over the generated inputs
SpecRender == InitRender /\ [][NextRender]_vars

\* the scripts alone
SpecConvert == InitConvert /\ [][NextConvert]_vars

\* ------------------------------------------------------------ properties
Lines == splitlines(markdown)

Range(s) == { s[k] : k \in DOMAIN s }

Last(s) == s[Len(s)]

Rendering == rpc \in {"loop", "done", "raised"}

\* line k has just been rendered: its fragment is the last one emitted
JustRendered(class) ==
    /\ rpc = "loop"
    /\ i >= 1
    /\ LineClass(Lines[i]) = class

Placeholder == <<"<p>&nbsp;</p>">>

IsItem(frag) == frag[1] = "<li>"

\* the embedded text of a heading, list-item or paragraph fragment
TextOf(frag) ==
    CASE frag[1] = "<li>" -> SubSeq(frag, 2, Len(frag) - 1)
      [] frag[1] = "<p>"  -> SubSeq(frag, 2, Len(frag) - 1)
      [] frag[1] = "<h"   -> SubSeq(frag, 6, Len(frag) - 3)
      [] OTHER            -> <<>>

\* the fragments emitted after the opening shell, without the closing shell
Body ==
    IF rpc = "done"
    THEN SubSeq(html_lines, Len(Shell) + 1, Len(html_lines) - Len(ShellEnd))
    ELSE Drop(html_lines, Len(Shell))

\* C1: after any prefix of the lines of any input, in_ul and in_ol are not
\* both true: at most one list type is open.
C1_FlagsExclusive == Rendering => ~(in_ul /\ in_ol)

C1_Witness ==
    /\ rpc = "loop" /\ i >= 2 /\ in_ol
    /\ LineClass(Lines[i - 1]) = "unordered"
    /\ LineClass(Lines[i]) = "ordered"

\* the stack of open lists after the fragments frags, starting from stack;
\* <<"unbalanced">> once a close tag does not close the innermost open list
RECURSIVE OpenLists(_, _)
OpenLists(frags, stack) ==
    IF frags = <<>> \/ stack = <<"unbalanced">> THEN stack
    ELSE LET f == Head(frags)
             top == IF stack = <<>> THEN "none" ELSE Last(stack)
             pop == SubSeq(stack, 1, Len(stack) - 1)
         IN  CASE f = <<"<ul>">>  -> OpenLists(Tail(frags), Append(stack, "ul"))
               [] f = <<"<ol>">>  -> OpenLists(Tail(frags), Append(stack, "ol"))
               [] f = <<"</ul>">> ->
                    IF top = "ul" THEN OpenLists(Tail(frags), pop)
                    ELSE <<"unbalanced">>
               [] f = <<"</ol>">> ->
                    IF top = "ol" THEN OpenLists(Tail(frags), pop)
                    ELSE <<"unbalanced">>
               [] OTHER -> OpenLists(Tail(frags), stack)

\* C2: the list tags of the output are balanced: a close tag closes the
\* most recently opened, still open list of its type, none is emitted when
\* no such list is open, and at the end both flags are false and every list
\* is closed before </body>.
C2_ListTagsBalanced ==
    Rendering =>
        /\ OpenLists(Body, <<>>) # <<"unbalanced">>
        /\ rpc = "done" =>
              /\ ~in_ul /\ ~in_ol
              /\ OpenLists(Body, <<>>) = <<>>
              /\ html_lines[Len(html_lines) - 1] = <<"</body>">>

C2_Witness ==
    /\ rpc = "done"
    /\ <<"</ul>">> \in Range(Body)
    /\ <<"</ol>">> \in Range(Body)

Entities == {"&amp;", "&lt;", "&gt;", "&quot;", "&#x27;"}

Special == {"<", ">", "\"", "'", "&"}

\* C3: the text embedded in every emitted heading, list-item or paragraph
\* fragment is escaped: it has no raw <, >, double or single quote, and an
\* & only as the start of an entity.
C3_TextEscaped ==
    Rendering =>
        \A k \in 1..Len(Body) :
            \A piece \in Range(TextOf(Body[k])) :
                piece \in Entities \/ (Len(piece) = 1 /\ piece \notin Special)

C3_Witness ==
    /\ rpc = "loop" /\ i >= 1
    /\ Special \subseteq Range(Lines[i])
    /\ Entities \subseteq Range(TextOf(Last(html_lines)))

\* C4 (as claimed): the text of the heading emitted for a line with a run
\* of n >= 1 '#' is everything after the whole run, trimmed and escaped,
\* for every n.
C4_TextAfterWholeRun ==
    JustRendered("heading") =>
        TextOf(Last(html_lines)) = escape(strip(lstrip(strip(Lines[i]), {"#"})))

ExpectedLevel(n) == IF n = 1 THEN 1 ELSE IF n = 2 THEN 2 ELSE 3

\* C5: a heading line with n >= 1 leading '#' is emitted at level
\* min(max(n, 1), 3): h1 for n = 1, h2 for n = 2, h3 for every n >= 3; the
\* level is a key of HEADING_STYLES, the lookup never fails, and the open
\* and close tags carry the same level.
C5_LevelClamped ==
    /\ Rendering => rpc # "raised" /\ render_err = "none"
    /\ JustRendered("heading") =>
          LET frag == Last(html_lines)
              n    == LeadRun(strip(Lines[i]), {"#"})
          IN  /\ n >= 1
              /\ ExpectedLevel(n) \in DOMAIN HEADING_STYLES
              /\ frag[1] = "<h"
              /\ frag[2] = LevelStr[ExpectedLevel(n)]
              /\ frag[4] = HEADING_STYLES[ExpectedLevel(n)]
              /\ frag[Len(frag) - 2] = "</h"
              /\ frag[Len(frag) - 1] = frag[2]

C5_Witness ==
    /\ JustRendered("heading")
    /\ LeadRun(strip(Lines[i]), {"#"}) > 3
    /\ Last(html_lines)[2] = "3"

JustRenderedLine(text) == rpc = "loop" /\ i >= 1 /\ Lines[i] = text

\* C6 (as claimed): '#### Title', '# Title' and '###### Title' all render
\* at heading level 3.
C6_AllThreeAtLevel3 ==
    \A n \in {1, 4, 6} :
        JustRenderedLine(Hashes(n) \o <<" ">> \o Title) =>
            Last(html_lines)[2] = "3"

\* C6 (amended): '#### Title' and '###### Title' render at level 3, and
\* '# Title' renders at level 1.
C6_ClampedTitles ==
    \A n \in {1, 4, 6} :
        JustRenderedLine(Hashes(n) \o <<" ">> \o Title) =>
            /\ Last(html_lines)[1] = "<h"
            /\ Last(html_lines)[2] = (IF n = 1 THEN "1" ELSE "3")

C6_Witness ==
    /\ JustRenderedLine(Hashes(6) \o <<" ">> \o Title)
    /\ Last(html_lines)[2] = "3"

ListTag(class, closing) ==
    IF class = "unordered"
    THEN (IF closing THEN <<"</ul>">> ELSE <<"<ul>">>)
    ELSE (IF closing THEN <<"</ol>">> ELSE <<"<ol>">>)

Item(text) == <<"<li>">> \o text \o <<"</li>">>

\* C7: when an item line of one list type is immediately followed by an
\* item line of the other type, the output has the first item, the close
\* tag of the first list, the open tag of the second list and the second
\* item, in this order with nothing between; '- a', '- b', '1. c' yields
\* <ul>, two items, </ul>, <ol>, one item, </ol>.
C7_SwitchClosesFirst ==
    /\ \A ca \in {"unordered", "ordered"} :
         \A cb \in {"unordered", "ordered"} \ {ca} :
            (rpc = "loop" /\ i >= 2 /\ LineClass(Lines[i - 1]) = ca
                /\ LineClass(Lines[i]) = cb) =>
                LET n == Len(html_lines)
                IN  /\ IsItem(html_lines[n - 3])
                    /\ html_lines[n - 2] = ListTag(ca, TRUE)
                    /\ html_lines[n - 1] = ListTag(cb, FALSE)
                    /\ IsItem(html_lines[n])
    /\ (rpc = "done" /\ Lines = << <<"-", " ", "a">>, <<"-", " ", "b">>,
                                  <<"1", ".", " ", "c">> >>) =>
          Body = << <<"<ul>">>, Item(<<"a">>), Item(<<"b">>), <<"</ul>">>,
                    <<"<ol>">>, Item(<<"c">>), <<"</ol>">> >>

C7_Witness ==
    /\ rpc = "done"
    /\ Lines = << <<"-", " ", "a">>, <<"-", " ", "b">>, <<"1", ".", " ", "c">> >>
    /\ Len(Body) = 7

RECURSIVE Count(_, _)
Count(s, x) ==
    IF s = <<>> THEN 0 ELSE (IF Head(s) = x THEN 1 ELSE 0) + Count(Tail(s), x)

ClassesOf(ls) == [k \in 1..Len(ls) |-> LineClass(ls[k])]

ItemClasses == {"unordered", "ordered"}

\* C8: every blank (empty or whitespace-only) line closes any open list and
\* emits exactly one placeholder: k blank lines give k placeholders, and
\* items separated by a blank line are in two separate containers.
C8_BlankLines ==
    /\ (rpc \in {"loop", "done"}) =>
          Count(Body, Placeholder) = Count(ClassesOf(SubSeq(Lines, 1, i)), "blank")
    /\ JustRendered("blank") =>
          /\ Last(html_lines) = Placeholder
          /\ ~in_ul /\ ~in_ol
          /\ OpenLists(Body, <<>>) = <<>>
    /\ (rpc = "loop" /\ i >= 3 /\ LineClass(Lines[i - 2]) \in ItemClasses
            /\ LineClass(Lines[i - 1]) = "blank"
            /\ LineClass(Lines[i]) \in ItemClasses) =>
          LET n == Len(html_lines)
          IN  /\ IsItem(html_lines[n - 4])
              /\ html_lines[n - 3] = ListTag(LineClass(Lines[i - 2]), TRUE)
              /\ html_lines[n - 2] = Placeholder
              /\ html_lines[n - 1] = ListTag(LineClass(Lines[i]), FALSE)
              /\ IsItem(html_lines[n])

C8_Witness ==
    /\ rpc = "loop" /\ i >= 3
    /\ LineClass(Lines[i - 2]) = "unordered"
    /\ LineClass(Lines[i - 1]) = "blank"
    /\ Lines[i - 1] # <<>>
    /\ LineClass(Lines[i]) = "unordered"
    /\ Count(Body, <<"<ul>">>) = 2

\* convert_to_pdf has ended (by return or by an exception)
ConvertEnded(p) == pc[p] \in {"report", "raise", "exit"} /\ read_attempts[p] > 0

ExternalFailed(p) == returncode[p] \notin {"none", "0"}

ConversionFailed(p) == exc[p] \in {"CalledProcessError", "ToolNotFound"}

\* the transient file this process created is still there
OwnTmpExists(p) ==
    /\ tmp_path[p] \in DOMAIN fs
    /\ fs[tmp_path[p]].creator = p

FailsWithoutRetry(p) ==
    /\ ConversionFailed(p)
    /\ ext_calls[p] = 1
    /\ pc[p] # "report"
    /\ pc[p] = "exit" => exit_status[p] = 1 /\ stdout[p] = <<>>

\* C9 (as claimed): if the external conversion fails, convert fails with
\* ConversionFailed, without success and without retry, and the transient
\* file no longer exists when convert returns.
C9_FailedAndFileGone ==
    \A p \in Procs :
        (ConvertEnded(p) /\ ExternalFailed(p)) =>
            FailsWithoutRetry(p) /\ ~OwnTmpExists(p)

\* C9 (amended): if the external conversion fails, convert fails with
\* ConversionFailed, without success and without retry, after one attempt
\* to delete the transient file; the file no longer exists when convert
\* returns unless that deletion failed.
C9_FailedAndRemoveAttempted ==
    \A p \in Procs :
        (ConvertEnded(p) /\ ExternalFailed(p)) =>
            /\ FailsWithoutRetry(p)
            /\ remove_result[p] \in {"removed", "OSError"}
            /\ remove_result[p] = "removed" => ~OwnTmpExists(p)

C9_Witness ==
    \E p \in Procs :
        /\ pc[p] = "exit" /\ returncode[p] = "1"
        /\ remove_result[p] = "removed"
        /\ tmp_path[p] \notin DOMAIN fs

\* C10: convert on a source path that does not exist fails with
\* InputNotFound; no transient file is created, the external converter is
\* not invoked, and the existence test comes before any read attempt.
C10_InputNotFound ==
    \A p \in Procs :
        /\ read_attempts[p] > 0 => exists_checked[p]
        /\ (argc[p] = 3 /\ src[p] \notin DOMAIN fs) =>
              /\ read_attempts[p] = 0
              /\ tmp_path[p] = "none"
              /\ ext_calls[p] = 0
              /\ \A n \in DOMAIN fs : fs[n].creator # p
              /\ pc[p] \in {"main", "exists", "exit"}
              /\ pc[p] = "exit" =>
                    /\ stderr[p] = <<"Input file not found">>
                    /\ exit_status[p] = 1
                    /\ stdout[p] = <<>>

C10_Witness ==
    \E p \in Procs :
        /\ pc[p] = "exit" /\ argc[p] = 3 /\ src[p] = "missing.md"
        /\ exists_checked[p]

\* C11 (as claimed): whenever the transient file has been created, a
\* deletion of it has been attempted by the time convert ends, by normal
\* return, by an early failure or by a failure of the external call, and
\* the file is gone when the deletion succeeded.
C11_RemovedOnAllPaths ==
    \A p \in Procs :
        (ConvertEnded(p) /\ tmp_path[p] # "none") =>
            /\ remove_result[p] \in {"removed", "OSError"}
            /\ remove_result[p] = "removed" => ~OwnTmpExists(p)

\* C12: a failure to delete the transient file is swallowed: the outcome of
\* convert follows from the status of the external converter alone, the
\* same whether the deletion succeeded or failed.
C12_RemoveFailureSwallowed ==
    \A p \in Procs :
        (ConvertEnded(p) /\ remove_result[p] # "none") =>
            /\ returncode[p] = "0" =>
                  /\ exc[p] = "none"
                  /\ pc[p] = "exit" => exit_status[p] = 0
            /\ returncode[p] # "0" =>
                  /\ ConversionFailed(p)
                  /\ pc[p] = "exit" => exit_status[p] = 1

C12_Witness ==
    \E p \in Procs :
        /\ pc[p] = "exit"
        /\ remove_result[p] = "OSError"
        /\ returncode[p] = "0"
        /\ exit_status[p] = 0

\* nothing of convert_to_pdf has happened for p
NothingDone(p) ==
    /\ read_attempts[p] = 0
    /\ tmp_path[p] = "none"
    /\ ext_calls[p] = 0
    /\ \A n \in DOMAIN fs : fs[n].creator # p

\* C13: the script exits with status 0 and prints 'Wrote <output>' if and
\* only if it got exactly two arguments, the input path exists and the
\* external conversion succeeded; with a wrong argument count or a missing
\* input it prints to the error stream and exits non-zero without reading
\* the input, creating a transient file or invoking the converter; a failed
\* conversion ends in a non-zero exit without the confirmation.
C13_ExitStatus ==
    \A p \in Procs :
        /\ (argc[p] # 3 \/ src[p] \notin DOMAIN fs) => NothingDone(p)
        /\ pc[p] = "exit" =>
              /\ exit_status[p] \in {0, 1}
              /\ exit_status[p] = 0 <=>
                    (argc[p] = 3 /\ src[p] \in DOMAIN fs /\ returncode[p] = "0")
              /\ exit_status[p] = 0 <=> stdout[p] = <<"Wrote">>
              /\ exit_status[p] # 0 => stdout[p] = <<>> /\ stderr[p] # <<>>
              /\ argc[p] # 3 => stderr[p] = <<"Usage">>
              /\ (argc[p] = 3 /\ src[p] \notin DOMAIN fs) =>
                    stderr[p] = <<"Input file not found">>
              /\ ExternalFailed(p) => exit_status[p] = 1 /\ stdout[p] = <<>>

C13_Witness ==
    /\ \A p \in Procs : pc[p] = "exit"
    /\ exit_status["p1"] = 0 /\ stdout["p1"] = <<"Wrote">>
    /\ argc["p2"] = 4 /\ exit_status["p2"] = 1

\* p holds a transient file it has created and not yet tried to delete
HoldsTmp(p) == pc[p] \in {"tmp_write", "run", "running", "remove"}

\* C14: two concurrent convert calls do not interfere through transient
\* files: while a call holds its file, the file exists under a name of its
\* own, with this call as its only writer, and the external converter of a
\* call reads the text this call has written, never a deleted file.
C14_NoInterference ==
    \A p \in Procs :
        /\ HoldsTmp(p) =>
              /\ OwnTmpExists(p)
              /\ fs[tmp_path[p]].text \in {<<>>, html_content[p]}
              /\ \A q \in Procs \ {p} : HoldsTmp(q) => tmp_path[q] # tmp_path[p]
        /\ pc[p] \in {"run", "running", "remove"} =>
              fs[tmp_path[p]].text = html_content[p]
        /\ pc[p] = "running" =>
              /\ ext_input[p].found
              /\ ext_input[p].text = html_content[p]

C14_Witness ==
    /\ pc["p1"] = "running" /\ pc["p2"] = "running"
    /\ tmp_path["p1"] # tmp_path["p2"]

\* C17: within convert the steps come in a fixed order, at most once each:
\* the transient file exists and holds the complete HTML text before the
\* external converter is invoked, the converter is invoked at most once,
\* and the file is deleted only after the external call has returned or
\* failed, never while it runs.
C17_StepOrder ==
    \A p \in Procs :
        /\ ext_calls[p] <= 1
        /\ read_attempts[p] <= 1
        /\ pc[p] \in {"run", "running"} =>
              /\ OwnTmpExists(p)
              /\ fs[tmp_path[p]].text = html_content[p]
              /\ html_content[p] = markdown_to_html(fs[src[p]].text)
              /\ remove_result[p] = "none"
        /\ pc[p] = "run" => ext_calls[p] = 0
        /\ pc[p] = "running" =>
              /\ ext_calls[p] = 1
              /\ ext_input[p] = [found |-> TRUE, text |-> html_content[p]]
        /\ remove_result[p] # "none" =>
              /\ ext_calls[p] = 1
              /\ returncode[p] # "none"
              /\ pc[p] \in {"report", "raise", "exit"}
        /\ ext_calls[p] = 1 => tmp_path[p] # "none"

C17_Witness ==
    \E p \in Procs :
        /\ pc[p] = "exit" /\ returncode[p] = "1"
        /\ ext_calls[p] = 1
        /\ remove_result[p] = "removed"
        /\ html_content[p] # <<>>

ListTags == { <<"<ul>">>, <<"</ul>">>, <<"<ol>">>, <<"</ol>">> }

IsContent(frag) == frag \notin ListTags

\* the content fragments of the body, in order
Content == SelectSeq(Body, IsContent)

\* the text of an ordered item line after its number, period and spaces
TextAfterNumber(line) ==
    lstrip(Drop(lstrip(strip(line), Digits), 1), Whitespace)

\* frag is the content fragment of the input line `line`
FragmentOf(frag, line) ==
    LET class == LineClass(line)
    IN  CASE class = "blank"     -> frag = Placeholder
          [] class = "heading"   ->
                /\ frag[1] = "<h"
                /\ frag[2] = LevelStr[ExpectedLevel(LeadRun(strip(line), {"#"}))]
          [] class = "ordered"   -> frag = Item(escape(TextAfterNumber(line)))
          [] class = "unordered" ->
                frag = Item(escape(strip(Drop(strip(line), 2))))
          [] OTHER -> frag = <<"<p>">> \o escape(strip(line)) \o <<"</p>">>

\* C15: the body has exactly one content fragment (placeholder, heading,
\* list item or paragraph) per input line, in input order, with only list
\* open and close tags between them; an input with no line gives the shell
\* with <body> directly followed by </body>.
C15_OneFragmentPerLine ==
    /\ (rpc \in {"loop", "done"}) =>
          /\ Len(Content) = i
          /\ \A k \in 1..Len(Content) : FragmentOf(Content[k], Lines[k])
    /\ rpc = "done" => i = Len(Lines)
    /\ (rpc = "done" /\ Lines = <<>>) =>
          /\ html_lines = Shell \o ShellEnd
          /\ html_lines[Len(Shell)] = <<"<body>">>
          /\ html_lines[Len(Shell) + 1] = <<"</body>">>

C15_Witness ==
    /\ rpc = "done"
    /\ Len(Lines) = 3
    /\ LineClass(Lines[1]) = "heading"
    /\ LineClass(Lines[2]) = "blank"
    /\ LineClass(Lines[3]) = "ordered"
    /\ Len(Body) = 5

C15_EmptyWitness == rpc = "done" /\ markdown = <<>> /\ html_lines = Shell \o ShellEnd

\* the lists open just before the k-th fragment of the body
OpenBefore(k) == OpenLists(SubSeq(Body, 1, k - 1), <<>>)

\* C16: a heading, paragraph or placeholder is never emitted while a list
\* is open (its line first closes the open list), and a list item is emitted
\* only while the list of its own type is the one open list.
C16_FragmentsAndOpenLists ==
    /\ (rpc \in {"loop", "done"}) =>
          \A k \in 1..Len(Body) :
              IsContent(Body[k]) =>
                  IF IsItem(Body[k])
                  THEN OpenBefore(k) \in { <<"ul">>, <<"ol">> }
                  ELSE OpenBefore(k) = <<>>
    /\ (rpc = "loop" /\ i >= 1) =>
          LET class == LineClass(Lines[i])
              open  == OpenBefore(Len(Body))
          IN  CASE class = "ordered"   -> open = <<"ol">> /\ in_ol /\ ~in_ul
                [] class = "unordered" -> open = <<"ul">> /\ in_ul /\ ~in_ol
                [] OTHER               -> open = <<>> /\ ~in_ul /\ ~in_ol

C16_Witness ==
    /\ rpc = "loop" /\ i >= 2
    /\ LineClass(Lines[i - 1]) \in ItemClasses
    /\ LineClass(Lines[i]) \in {"heading", "paragraph"}
    /\ OpenBefore(Len(Body)) = <<>>

\* the rendering of the lines ls, as the loop and what follows it produce it
RenderLines(ls) == join(FinishLines(ProcessAll(RenderStart, ls)).html_lines)

\* the line with the number of an ordered item replaced by the digits d
Renumbered(line, d) ==
    IF LineClass(line) = "ordered"
    THEN LET lead == LeadRun(line, Whitespace)
         IN  SubSeq(line, 1, lead) \o d
                 \o Drop(line, lead + LeadRun(Drop(line, lead), Digits))
    ELSE line

AltNumbers == { <<"7">>, <<"4", "2">> }

\* C18: the number of an ordered item is discarded: inputs that differ only
\* in the digits before the period of their ordered item lines give the
\* same output, and the item fragment holds only the escaped text after
\* the prefix.
C18_NumberDiscarded ==
    /\ rpc = "done" =>
          \A d \in AltNumbers :
              RenderLines([k \in 1..Len(Lines) |-> Renumbered(Lines[k], d)])
                  = html_out
    /\ JustRendered("ordered") =>
          Last(html_lines) = Item(escape(TextAfterNumber(Lines[i])))

C18_Witness ==
    /\ rpc = "done"
    /\ \E k \in 1..Len(Lines) :
          /\ LineClass(Lines[k]) = "ordered"
          /\ \A d \in AltNumbers : Renumbered(Lines[k], d) # Lines[k]
          /\ Item(escape(TextAfterNumber(Lines[k]))) \in Range(Body)

\* the number of runs of consecutive lines of class c among the lines
\* rendered so far
Runs(c) ==
    Cardinality({ k \in 1..i :
        /\ LineClass(Lines[k]) = c
        /\ (k = 1 \/ LineClass(Lines[k - 1]) # c) })

\* C19: a maximal run of consecutive item lines of one type shares one
\* container: the open tag is emitted only on the first item of the run,
\* and no open or close tag stands between two consecutive items of the
\* same type.
C19_OneContainerPerRun ==
    /\ (rpc \in {"loop", "done"}) =>
          \A c \in ItemClasses :
              /\ Count(Body, ListTag(c, FALSE)) = Runs(c)
              /\ Count(Body, ListTag(c, TRUE)) \in {Runs(c), Runs(c) - 1}
    /\ (rpc = "loop" /\ i >= 2 /\ LineClass(Lines[i]) \in ItemClasses
            /\ LineClass(Lines[i - 1]) = LineClass(Lines[i])) =>
          /\ IsItem(html_lines[Len(html_lines) - 1])
          /\ IsItem(html_lines[Len(html_lines)])

C19_Witness ==
    /\ rpc = "done" /\ Len(Lines) = 3
    /\ \A k \in 1..3 : LineClass(Lines[k]) = "unordered"
    /\ Count(Body, <<"<ul>">>) = 1
    /\ Len(Body) = 5

\* C20: no empty list container: every <ul> or <ol> is directly followed by
\* a list item, and every </ul> or </ol> is directly preceded by one.
C20_NoEmptyContainer ==
    (rpc \in {"loop", "done"}) =>
        \A k \in 1..Len(Body) :
            /\ Body[k] \in { <<"<ul>">>, <<"<ol>">> } =>
                  k < Len(Body) /\ IsItem(Body[k + 1])
            /\ Body[k] \in { <<"</ul>">>, <<"</ol>">> } =>
                  k > 1 /\ IsItem(Body[k - 1])

C20_Witness ==
    /\ rpc = "done"
    /\ Len(Lines) = 3
    /\ LineClass(Lines[1]) = "unordered"
    /\ Lines[2] = <<"-", " ">>
    /\ LineClass(Lines[3]) = "ordered"
    /\ Len(Body) = 7
====
